---- MODULE Spec2Model ----
(***************************************************************************)
(* Model of sync_jobs.py: the watermark-driven incremental sync of job     *)
(* rows from the PostgreSQL source ("karmafy_job") into the Supabase table *)
(* "job_jobrole_all".  One run of the script is one process r; runs are    *)
(* started one after the other (Spec).                                     *)
(***************************************************************************)
EXTENDS Integers, Sequences, FiniteSets, TLC

\* ------------------------------------------------------------------------
\* Bounds of the model
\* ------------------------------------------------------------------------
\* number of rows the source table can hold
MaxJobs == 3
\* batch_size (sync_jobs.py:182 sets 1000), scaled so that several batches occur
batch_size == 2

\* the runs of the script in one behaviour: a run and a re-run
Runs == 1..2

\* ------------------------------------------------------------------------
\* Python / pandas values.  A missing value is None, float NaN or NaT
\* depending on the dtype of the DataFrame column.
\* ------------------------------------------------------------------------
None == [t |-> "None"]
NaN == [t |-> "NaN"]
NaT == [t |-> "NaT"]
PyInt(n) == [t |-> "int", n |-> n]
PyFloat(n) == [t |-> "float", n |-> n]
PyStr(s) == [t |-> "str", s |-> s]
\* a datetime / pandas Timestamp: days since 1970-01-01, second of the day,
\* microsecond of the second
Timestamp(d, s, u) == [t |-> "ts", day |-> d, sec |-> s, usec |-> u]

pd_isna(v) == v.t \in {"None", "NaN", "NaT"}
pd_notna(v) == ~pd_isna(v)

\* int(x): an integer or an integral float becomes a Python int
int(v) == PyInt(v.n)

\* Timestamp.isoformat(): text "YYYY-MM-DDTHH:MM:SS.ffffff", keeps microseconds
isoformat(v) == [t |-> "isostr", day |-> v.day, sec |-> v.sec, usec |-> v.usec]
\* datetime.fromisoformat(text)
fromisoformat(s) == Timestamp(s.day, s.sec, s.usec)
\* dt + timedelta(days=1)
AddOneDay(dt) == Timestamp(dt.day + 1, dt.sec, dt.usec)
\* dt.strftime('%Y-%m-%d %H:%M:%S'): text with one-second granularity
strftime(dt) == [t |-> "sqlstr", day |-> dt.day, sec |-> dt.sec]
\* the literal '1970-01-01 00:00:00'
EpochStr == [t |-> "sqlstr", day |-> 0, sec |-> 0]
\* PostgreSQL reading the quoted literal of the WHERE clause as a timestamp
SqlTimestamp(s) == Timestamp(s.day, s.sec, 0)

\* order of two timestamps
TsLT(a, b) ==
    \/ a.day < b.day
    \/ a.day = b.day /\ a.sec < b.sec
    \/ a.day = b.day /\ a.sec = b.sec /\ a.usec < b.usec
TsLE(a, b) == a = b \/ TsLT(a, b)

\* ------------------------------------------------------------------------
\* Instants used by the model
\* ------------------------------------------------------------------------
T_2023_12_31 == Timestamp(19722, 0, 0)
T_2024_01_01 == Timestamp(19723, 0, 0)
T_2024_01_02 == Timestamp(19724, 0, 0)
T_2024_01_02_half == Timestamp(19724, 0, 500000)
T_2024_01_03 == Timestamp(19725, 0, 0)
T_2024_01_02_noon == Timestamp(19724, 43200, 0)
T_2024_01_04 == Timestamp(19726, 0, 0)

\* values of j."uploadDate" a source row can have (NaT: SQL NULL)
UploadDates == {NaT, T_2023_12_31, T_2024_01_02, T_2024_01_02_half, T_2024_01_03}
\* values of the wall clock
ClockValues == {T_2024_01_02_noon, T_2024_01_04}


\* ------------------------------------------------------------------------
\* Record Normalizer (the job_data dictionary) and the NaN/None pass
\* ------------------------------------------------------------------------
Country == PyStr("United States of America")

job_data(row) ==
    [job_id |-> IF pd_notna(row.job_id) THEN int(row.job_id) ELSE None,
     job_role_id |-> IF pd_notna(row.job_role_id) THEN int(row.job_role_id) ELSE None,
     job_role_name |-> IF pd_notna(row.job_role_name) THEN row.job_role_name ELSE None,
     source |-> IF pd_notna(row.source) THEN row.source ELSE PyStr(""),
     title |-> IF pd_notna(row.title) THEN row.title ELSE PyStr(""),
     company |-> IF pd_notna(row.company) THEN row.company ELSE PyStr(""),
     location |-> IF pd_notna(row.location) THEN row.location ELSE PyStr(""),
     url |-> IF pd_notna(row.url) THEN row.url ELSE PyStr(""),
     description |-> IF pd_notna(row.description) THEN row.description ELSE PyStr(""),
     raw_text |-> IF pd_notna(row.raw_text) THEN row.raw_text ELSE PyStr(""),
     date_posted |-> IF pd_notna(row.date_posted) THEN isoformat(row.date_posted) ELSE None,
     hours_back_posted |-> IF pd_notna(row.hours_back_posted)
                           THEN int(row.hours_back_posted) ELSE PyInt(0),
     years_exp_required |-> IF pd_notna(row.years_exp_required)
                            THEN row.years_exp_required ELSE None,
     upload_date |-> IF pd_notna(row.upload_date) THEN isoformat(row.upload_date) ELSE None,
     ingested_at |-> IF pd_notna(row.ingested_at) THEN isoformat(row.ingested_at) ELSE None,
     country |-> Country]

\* a pass that takes every falsy value for a missing one: if not value
ReplaceFalsy(rec) ==
    [key \in DOMAIN rec |->
        IF pd_isna(rec[key]) \/ rec[key] = PyStr("") \/ rec[key] = PyInt(0)
        THEN None ELSE rec[key]]

\* for key, value in record.items(): if pd.isna(value): record[key] = None
ReplaceNaN(rec) ==
    [key \in DOMAIN rec |-> IF pd_isna(rec[key]) THEN None ELSE rec[key]]

\* ------------------------------------------------------------------------
\* Rows of the source query result, as pandas hands them to the script
\* ------------------------------------------------------------------------
\* the row of job j with upload date ud; job 2 has no role (the LEFT JOIN
\* misses), job 3 has its optional columns NULL
SourceRow(j, ud) ==
    [job_id |-> PyInt(j),
     job_role_id |-> IF j = 2 THEN NaN ELSE PyFloat(10 + j),
     job_role_name |-> IF j = 2 THEN None ELSE PyStr("role"),
     source |-> IF j = 3 THEN None ELSE PyStr("board"),
     title |-> PyStr("title"),
     company |-> IF j = 3 THEN None ELSE PyStr("company"),
     location |-> IF j = 3 THEN None ELSE PyStr(""),
     url |-> PyStr("url"),
     description |-> IF j = 3 THEN None ELSE PyStr("description"),
     raw_text |-> IF j = 3 THEN None ELSE PyStr("raw"),
     date_posted |-> IF j = 3 THEN NaT ELSE T_2023_12_31,
     hours_back_posted |-> IF j = 3 THEN NaN ELSE PyFloat(0),
     years_exp_required |-> IF j = 1 THEN PyStr("3+") ELSE None,
     upload_date |-> ud,
     ingested_at |-> IF j = 3 THEN NaT ELSE T_2023_12_31]

\* contents of the source table: jobs 1..n, each with some upload date; ids are
\* handed out in upload order, so a job with a larger id was not uploaded earlier
InUploadOrder(f, n) ==
    \A j, k \in 1..n : (j < k /\ f[j] # NaT /\ f[k] # NaT) => TsLE(f[j], f[k])

SourceTables ==
    UNION {{{SourceRow(j, f[j]) : j \in 1..n} :
                f \in {g \in [1..n -> UploadDates] : InUploadOrder(g, n)}} : n \in 0..MaxJobs}

\* a row written to the destination before the first run
OldRow(ud) == ReplaceNaN(job_data(SourceRow(0, ud)))
\* contents of the destination table before the first run
InitialDests ==
    {<<>>,
     <<OldRow(NaT)>>,
     <<OldRow(T_2024_01_01)>>,
     <<OldRow(T_2023_12_31), OldRow(T_2024_01_02_half), OldRow(NaT)>>}


\* ------------------------------------------------------------------------
\* The two stores' queries
\* ------------------------------------------------------------------------
\* supabase.table("job_jobrole_all").select("upload_date")
\*   .not_.is_("upload_date", None).order("upload_date", desc=True).limit(1)
SelectMaxUploadDate(d) ==
    LET NonNull == {k \in 1..Len(d) : d[k].upload_date # None}
    IN  IF NonNull = {} THEN <<>>
        ELSE LET top == CHOOSE k \in NonNull : \A m \in NonNull :
                            TsLE(fromisoformat(d[m].upload_date),
                                 fromisoformat(d[k].upload_date))
             IN  <<[upload_date |-> d[top].upload_date]>>

\* a WHERE clause that keeps the row whose uploadDate equals the low bound
WhereClauseInclusive(row, low, current_timestamp) ==
    /\ pd_notna(row.upload_date)
    /\ TsLE(SqlTimestamp(low), row.upload_date)
    /\ TsLE(row.upload_date, current_timestamp)

\* WHERE j."uploadDate" > '{max_upload_date_str}'
\*   AND j."uploadDate" <= CURRENT_TIMESTAMP      (a NULL uploadDate matches nothing)
WhereClause(row, low, current_timestamp) ==
    /\ pd_notna(row.upload_date)
    /\ TsLT(SqlTimestamp(low), row.upload_date)
    /\ TsLE(row.upload_date, current_timestamp)

\* an ascending ORDER BY
OrderByUploadDateAsc(s) ==
    \A a, b \in 1..Len(s) : a < b => TsLE(s[a].upload_date, s[b].upload_date)

\* ORDER BY j."uploadDate" DESC
OrderByUploadDateDesc(s) ==
    \A a, b \in 1..Len(s) : a < b => TsLE(s[b].upload_date, s[a].upload_date)

\* the result sets sql_query can produce (rows with equal uploadDate come in any order)
sql_query(src, low, current_timestamp) ==
    LET matching == {row \in src : WhereClause(row, low, current_timestamp)}
        n == Cardinality(matching)
    IN  {s \in [1..n -> matching] :
            /\ \A a, b \in 1..n : a # b => s[a] # s[b]
            /\ OrderByUploadDateDesc(s)}

\* ------------------------------------------------------------------------
\* State
\* ------------------------------------------------------------------------
VARIABLES
    source,               \* rows of the source query's tables
    dest,                 \* rows of the destination table, in insertion order
    now,                  \* the wall clock
    pc,                   \* pc[r]: position of run r in the script
    outcome,              \* outcome[r]: how run r ended
    max_upload_date_str,  \* per run: the low bound interpolated into sql_query
    end_date_str,         \* per run: the printed end of the date range
    df,                   \* per run: the fetched DataFrame, a sequence of rows
    jobs_data,            \* per run: the prepared records
    i,                    \* per run: start index of the next batch
    total_inserted,       \* per run
    total_errors,         \* per run
    success_rate,         \* per run: the printed rate, in hundredths of a percent
    watermark,            \* per run: which branch resolved the bounds
    resolvedAt,           \* per run: the clock when the bounds were resolved
    destAtStart,          \* per run: the destination when the run started
    queryTime,            \* per run: CURRENT_TIMESTAMP of the delta query
    attempts,             \* per run: the insert calls made, in order
    row,                  \* normalizer on its own: the source row
    record,               \* normalizer on its own: the job_data built from it
    cleaned,              \* normalizer on its own: the record after the NaN pass
    stage                 \* normalizer on its own: position

runVars == <<pc, outcome, max_upload_date_str, end_date_str, df, jobs_data, i,
             total_inserted, total_errors, success_rate, watermark, resolvedAt,
             destAtStart, queryTime, attempts>>
normVars == <<row, record, cleaned, stage>>
vars == <<source, dest, now, runVars, normVars>>

NoStr == [t |-> "unset"]

InitRuns ==
    /\ pc = [r \in Runs |-> "idle"]
    /\ outcome = [r \in Runs |-> "none"]
    /\ max_upload_date_str = [r \in Runs |-> NoStr]
    /\ end_date_str = [r \in Runs |-> NoStr]
    /\ df = [r \in Runs |-> <<>>]
    /\ jobs_data = [r \in Runs |-> <<>>]
    /\ i = [r \in Runs |-> 0]
    /\ total_inserted = [r \in Runs |-> 0]
    /\ total_errors = [r \in Runs |-> 0]
    /\ success_rate = [r \in Runs |-> -1]
    /\ watermark = [r \in Runs |-> "unresolved"]
    /\ resolvedAt = [r \in Runs |-> NoStr]
    /\ destAtStart = [r \in Runs |-> <<>>]
    /\ queryTime = [r \in Runs |-> NoStr]
    /\ attempts = [r \in Runs |-> <<>>]

InitNormIdle ==
    /\ row = SourceRow(1, T_2023_12_31)
    /\ record = NoStr
    /\ cleaned = NoStr
    /\ stage = "unused"

Init ==
    /\ source \in SourceTables
    /\ dest \in InitialDests
    /\ now \in ClockValues
    /\ InitRuns
    /\ InitNormIdle


\* ------------------------------------------------------------------------
\* The script, one action per step
\* ------------------------------------------------------------------------
Exit(r, how) ==
    /\ pc' = [pc EXCEPT ![r] = "done"]
    /\ outcome' = [outcome EXCEPT ![r] = how]

\* the external trigger starts run r
StartRun(r) ==
    /\ pc[r] = "idle"
    /\ pc' = [pc EXCEPT ![r] = "connect_postgres"]
    /\ destAtStart' = [destAtStart EXCEPT ![r] = dest]
    /\ UNCHANGED <<source, dest, now, outcome, max_upload_date_str, end_date_str, df,
                   jobs_data, i, total_inserted, total_errors, success_rate, watermark,
                   resolvedAt, queryTime, attempts, normVars>>

\* lines 11-21: conn_str = os.environ.get("PSQL_KEY")
ConnectPostgres(r) ==
    /\ pc[r] = "connect_postgres"
    /\ \E conn_str \in {"", "postgresql://source"} :
          IF conn_str = ""
          THEN Exit(r, "config_error")
          ELSE /\ pc' = [pc EXCEPT ![r] = "connect_supabase"]
               /\ UNCHANGED outcome
    /\ UNCHANGED <<source, dest, now, max_upload_date_str, end_date_str, df, jobs_data, i,
                   total_inserted, total_errors, success_rate, watermark, resolvedAt,
                   destAtStart, queryTime, attempts, normVars>>

\* a handler without exit(): the error is printed and the run goes on
ConnectSupabaseNoExit(r) ==
    /\ pc[r] = "connect_supabase"
    /\ \E url \in {"", "https://destination"}, key \in {"", "secret"} :
          /\ outcome' = [outcome EXCEPT ![r] =
                            IF url = "" \/ key = "" THEN "config_error" ELSE @]
          /\ pc' = [pc EXCEPT ![r] = "resolve"]
    /\ UNCHANGED <<source, dest, now, max_upload_date_str, end_date_str, df, jobs_data, i,
                   total_inserted, total_errors, success_rate, watermark, resolvedAt,
                   destAtStart, queryTime, attempts, normVars>>

\* lines 24-35: url, key = os.environ.get("SUPABASE_URL"), os.environ.get("SUPABASE_KEY")
ConnectSupabase(r) ==
    /\ pc[r] = "connect_supabase"
    /\ \E url \in {"", "https://destination"}, key \in {"", "secret"} :
          IF url = "" \/ key = ""
          THEN Exit(r, "config_error")
          ELSE /\ pc' = [pc EXCEPT ![r] = "resolve"]
               /\ UNCHANGED outcome
    /\ UNCHANGED <<source, dest, now, max_upload_date_str, end_date_str, df, jobs_data, i,
                   total_inserted, total_errors, success_rate, watermark, resolvedAt,
                   destAtStart, queryTime, attempts, normVars>>

\* a resolver that interpolates the advanced date as the low bound
WatermarkBoundsAdvanced(data, clock) ==
    IF data = <<>>
    THEN [branch |-> "empty",
          max_upload_date_str |-> EpochStr,
          end_date_str |-> strftime(clock)]
    ELSE LET end_date_dt == AddOneDay(fromisoformat(data[1].upload_date))
         IN  [branch |-> "found",
              max_upload_date_str |-> strftime(end_date_dt),
              end_date_str |-> strftime(end_date_dt)]

\* lines 48-74: the two bounds and the branch taken, from response.data
WatermarkBounds(data, clock) ==
    IF data = <<>>
    THEN [branch |-> "empty",
          max_upload_date_str |-> EpochStr,
          end_date_str |-> strftime(clock)]
    ELSE LET max_upload_date == data[1].upload_date
             max_upload_date_dt == fromisoformat(max_upload_date)
             end_date_dt == AddOneDay(max_upload_date_dt)
         IN  [branch |-> "found",
              max_upload_date_str |-> strftime(max_upload_date_dt),
              end_date_str |-> strftime(end_date_dt)]

\* an except branch that leaves the clock's date as the low bound
WatermarkFallbackGarbled(clock) ==
    [branch |-> "error",
     max_upload_date_str |-> strftime(clock),
     end_date_str |-> strftime(clock)]

\* lines 76-80: the except branch
WatermarkFallback(clock) ==
    [branch |-> "error",
     max_upload_date_str |-> EpochStr,
     end_date_str |-> strftime(clock)]

SetBounds(r, b) ==
    /\ max_upload_date_str' = [max_upload_date_str EXCEPT ![r] = b.max_upload_date_str]
    /\ end_date_str' = [end_date_str EXCEPT ![r] = b.end_date_str]
    /\ watermark' = [watermark EXCEPT ![r] = b.branch]
    /\ resolvedAt' = [resolvedAt EXCEPT ![r] = now]
    /\ pc' = [pc EXCEPT ![r] = "fetch"]

\* a resolver that stores the cursor it resolved as a row of the destination
ResolveWatermarkPersist(r) ==
    /\ pc[r] = "resolve"
    /\ SetBounds(r, WatermarkBounds(SelectMaxUploadDate(dest), now))
    /\ dest' = Append(dest, OldRow(now))
    /\ UNCHANGED <<source, now, outcome, df, jobs_data, i, total_inserted,
                   total_errors, success_rate, destAtStart, queryTime, attempts, normVars>>

\* lines 38-74: the destination answers the query for its maximum upload_date
ResolveWatermark(r) ==
    /\ pc[r] = "resolve"
    /\ SetBounds(r, WatermarkBounds(SelectMaxUploadDate(dest), now))
    /\ UNCHANGED <<source, dest, now, outcome, df, jobs_data, i, total_inserted,
                   total_errors, success_rate, destAtStart, queryTime, attempts, normVars>>

\* a resolver whose handler gives the run up
ResolveWatermarkErrorAbort(r) ==
    /\ pc[r] = "resolve"
    /\ Exit(r, "watermark_error")
    /\ UNCHANGED <<source, dest, now, max_upload_date_str, end_date_str, df, jobs_data, i,
                   total_inserted, total_errors, success_rate, watermark, resolvedAt,
                   destAtStart, queryTime, attempts, normVars>>

\* lines 38-80: the query or the parsing of its answer raises
ResolveWatermarkError(r) ==
    /\ pc[r] = "resolve"
    /\ SetBounds(r, WatermarkFallback(now))
    /\ UNCHANGED <<source, dest, now, outcome, df, jobs_data, i, total_inserted,
                   total_errors, success_rate, destAtStart, queryTime, attempts, normVars>>

\* a fetch that takes an empty result for a failure
FetchDeltaEmptyIsError(r) ==
    /\ pc[r] = "fetch"
    /\ \E rows \in sql_query(source, max_upload_date_str[r], now) :
          /\ df' = [df EXCEPT ![r] = rows]
          /\ IF Len(rows) = 0
             THEN Exit(r, "fetch_error")
             ELSE /\ pc' = [pc EXCEPT ![r] = "prepare"]
                  /\ UNCHANGED outcome
    /\ queryTime' = [queryTime EXCEPT ![r] = now]
    /\ UNCHANGED <<source, dest, now, max_upload_date_str, end_date_str, jobs_data, i,
                   total_inserted, total_errors, success_rate, watermark, resolvedAt,
                   destAtStart, attempts, normVars>>

\* a fetch without the zero-row exit of lines 122-124
FetchDeltaNoExit(r) ==
    /\ pc[r] = "fetch"
    /\ \E rows \in sql_query(source, max_upload_date_str[r], now) :
          df' = [df EXCEPT ![r] = rows]
    /\ pc' = [pc EXCEPT ![r] = "prepare"]
    /\ queryTime' = [queryTime EXCEPT ![r] = now]
    /\ UNCHANGED <<source, dest, now, outcome, max_upload_date_str, end_date_str,
                   jobs_data, i, total_inserted, total_errors, success_rate, watermark,
                   resolvedAt, destAtStart, attempts, normVars>>

\* lines 108-115 and 122-124: pd.read_sql returns; a run with no new row exits
FetchDelta(r) ==
    /\ pc[r] = "fetch"
    /\ \E rows \in sql_query(source, max_upload_date_str[r], now) :
          /\ df' = [df EXCEPT ![r] = rows]
          /\ IF Len(rows) = 0
             THEN Exit(r, "no_new_jobs")
             ELSE /\ pc' = [pc EXCEPT ![r] = "prepare"]
                  /\ UNCHANGED outcome
    /\ queryTime' = [queryTime EXCEPT ![r] = now]
    /\ UNCHANGED <<source, dest, now, max_upload_date_str, end_date_str, jobs_data, i,
                   total_inserted, total_errors, success_rate, watermark, resolvedAt,
                   destAtStart, attempts, normVars>>

\* an except branch without exit(): the run goes on with some result set
FetchDeltaErrorContinue(r) ==
    /\ pc[r] = "fetch"
    /\ \E rows \in sql_query(source, EpochStr, now) :
          /\ Len(rows) > 0
          /\ df' = [df EXCEPT ![r] = rows]
    /\ pc' = [pc EXCEPT ![r] = "prepare"]
    /\ outcome' = [outcome EXCEPT ![r] = "fetch_error"]
    /\ UNCHANGED <<source, dest, now, max_upload_date_str, end_date_str, jobs_data, i,
                   total_inserted, total_errors, success_rate, watermark, resolvedAt,
                   destAtStart, queryTime, attempts, normVars>>

\* lines 116-120: pd.read_sql raises
FetchDeltaError(r) ==
    /\ pc[r] = "fetch"
    /\ Exit(r, "fetch_error")
    /\ UNCHANGED <<source, dest, now, max_upload_date_str, end_date_str, df, jobs_data, i,
                   total_inserted, total_errors, success_rate, watermark, resolvedAt,
                   destAtStart, queryTime, attempts, normVars>>

\* a loop that skips the rows whose role join missed
PrepareJobsSkipNoRole(r) ==
    /\ pc[r] = "prepare"
    /\ jobs_data' = [jobs_data EXCEPT ![r] =
                        SelectSeq([k \in 1..Len(df[r]) |-> job_data(df[r][k])],
                                  LAMBDA rec : rec.job_role_id # None)]
    /\ pc' = [pc EXCEPT ![r] = "begin_insert"]
    /\ UNCHANGED <<source, dest, now, outcome, max_upload_date_str, end_date_str, df, i,
                   total_inserted, total_errors, success_rate, watermark, resolvedAt,
                   destAtStart, queryTime, attempts, normVars>>

\* lines 133-156: for idx, row in df.iterrows(): jobs_data.append(job_data)
PrepareJobs(r) ==
    /\ pc[r] = "prepare"
    /\ jobs_data' = [jobs_data EXCEPT ![r] = [k \in 1..Len(df[r]) |-> job_data(df[r][k])]]
    /\ pc' = [pc EXCEPT ![r] = "begin_insert"]
    /\ UNCHANGED <<source, dest, now, outcome, max_upload_date_str, end_date_str, df, i,
                   total_inserted, total_errors, success_rate, watermark, resolvedAt,
                   destAtStart, queryTime, attempts, normVars>>

\* lines 168-184 and 218-219: the NaN pass and the counters, or nothing prepared
BeginInsert(r) ==
    /\ pc[r] = "begin_insert"
    /\ IF Len(jobs_data[r]) > 0
       THEN /\ jobs_data' = [jobs_data EXCEPT ![r] =
                                [k \in 1..Len(jobs_data[r]) |-> ReplaceNaN(jobs_data[r][k])]]
            /\ total_inserted' = [total_inserted EXCEPT ![r] = 0]
            /\ total_errors' = [total_errors EXCEPT ![r] = 0]
            /\ i' = [i EXCEPT ![r] = 0]
            /\ pc' = [pc EXCEPT ![r] = "insert"]
            /\ UNCHANGED outcome
       ELSE /\ Exit(r, "nothing_prepared")
            /\ UNCHANGED <<jobs_data, total_inserted, total_errors, i>>
    /\ UNCHANGED <<source, dest, now, max_upload_date_str, end_date_str, df, success_rate,
                   watermark, resolvedAt, destAtStart, queryTime, attempts, normVars>>

Min(a, b) == IF a <= b THEN a ELSE b

\* a slice that is one record short: jobs_data[i:i + batch_size - 1]
BatchShort(data, start) == SubSeq(data, start + 1, Min(start + batch_size - 1, Len(data)))

\* line 192: jobs_data[i:i + batch_size]
Batch(data, start) == SubSeq(data, start + 1, Min(start + batch_size, Len(data)))

NextBatch(r, result, confirmed) ==
    /\ attempts' = [attempts EXCEPT ![r] =
                       Append(@, [start |-> i[r], batch |-> Batch(jobs_data[r], i[r]),
                                  result |-> result, confirmed |-> confirmed])]
    /\ i' = [i EXCEPT ![r] = @ + batch_size]

\* an insert that leaves out the rows whose job_id the destination already holds
InsertBatchUpsert(r) ==
    /\ pc[r] = "insert"
    /\ i[r] < Len(jobs_data[r])
    /\ LET batch == Batch(jobs_data[r], i[r])
       IN  /\ batch # <<>>
           /\ \E written \in 0..Len(batch) :
                LET response_data == SubSeq(batch, 1, written)
                    batch_inserted == Len(response_data)
                    Held(rec) == \E k \in 1..Len(dest) : dest[k].job_id = rec.job_id
                IN  /\ dest' = dest \o SelectSeq(response_data, LAMBDA rec : ~Held(rec))
                    /\ total_inserted' = [total_inserted EXCEPT ![r] = @ + batch_inserted]
                    /\ NextBatch(r, "returned", batch_inserted)
    /\ UNCHANGED <<source, now, pc, outcome, max_upload_date_str, end_date_str, df,
                   jobs_data, total_errors, success_rate, watermark, resolvedAt,
                   destAtStart, queryTime, normVars>>

\* an insert that counts the rows it sent instead of the rows confirmed
InsertBatchCountSent(r) ==
    /\ pc[r] = "insert"
    /\ i[r] < Len(jobs_data[r])
    /\ LET batch == Batch(jobs_data[r], i[r])
       IN  /\ batch # <<>>
           /\ \E written \in 0..Len(batch) :
                LET response_data == SubSeq(batch, 1, written)
                IN  /\ dest' = dest \o response_data
                    /\ total_inserted' = [total_inserted EXCEPT ![r] = @ + Len(batch)]
                    /\ NextBatch(r, "returned", Len(response_data))
    /\ UNCHANGED <<source, now, pc, outcome, max_upload_date_str, end_date_str, df,
                   jobs_data, total_errors, success_rate, watermark, resolvedAt,
                   destAtStart, queryTime, normVars>>

\* lines 191-198: the insert returns; response.data holds the rows the destination wrote
InsertBatch(r) ==
    /\ pc[r] = "insert"
    /\ i[r] < Len(jobs_data[r])
    /\ LET batch == Batch(jobs_data[r], i[r])
       IN  /\ batch # <<>>
           /\ \E written \in 0..Len(batch) :
                LET response_data == SubSeq(batch, 1, written)
                    batch_inserted == Len(response_data)
                IN  /\ dest' = dest \o response_data
                    /\ total_inserted' = [total_inserted EXCEPT ![r] = @ + batch_inserted]
                    /\ NextBatch(r, "returned", batch_inserted)
    /\ UNCHANGED <<source, now, pc, outcome, max_upload_date_str, end_date_str, df,
                   jobs_data, total_errors, success_rate, watermark, resolvedAt,
                   destAtStart, queryTime, normVars>>

\* a handler that leaves the loop at the first batch that raises
InsertBatchErrorBreak(r) ==
    /\ pc[r] = "insert"
    /\ i[r] < Len(jobs_data[r])
    /\ LET batch == Batch(jobs_data[r], i[r])
       IN  /\ total_errors' = [total_errors EXCEPT ![r] = @ + Len(batch)]
           /\ attempts' = [attempts EXCEPT ![r] =
                              Append(@, [start |-> i[r], batch |-> batch,
                                         result |-> "raised", confirmed |-> 0])]
           /\ i' = [i EXCEPT ![r] = Len(jobs_data[r])]
    /\ UNCHANGED <<source, dest, now, pc, outcome, max_upload_date_str, end_date_str, df,
                   jobs_data, total_inserted, success_rate, watermark, resolvedAt,
                   destAtStart, queryTime, normVars>>

\* lines 199-201: the insert raises; the destination rejects the batch as a whole
InsertBatchError(r) ==
    /\ pc[r] = "insert"
    /\ i[r] < Len(jobs_data[r])
    /\ LET batch == Batch(jobs_data[r], i[r])
       IN  /\ batch # <<>>
           /\ total_errors' = [total_errors EXCEPT ![r] = @ + Len(batch)]
           /\ NextBatch(r, "raised", 0)
    /\ UNCHANGED <<source, dest, now, pc, outcome, max_upload_date_str, end_date_str, df,
                   jobs_data, total_inserted, success_rate, watermark, resolvedAt,
                   destAtStart, queryTime, normVars>>

\* lines 203-217 and 221-224: the loop is over; the totals and the success rate.
\* A division by zero would raise into the outer handler of lines 212-217.
Report(r) ==
    /\ pc[r] = "insert"
    /\ i[r] >= Len(jobs_data[r])
    /\ IF Len(jobs_data[r]) = 0
       THEN /\ Exit(r, "insert_error")
            /\ UNCHANGED success_rate
       ELSE /\ success_rate' = [success_rate EXCEPT ![r] =
                                   (total_inserted[r] * 10000) \div Len(jobs_data[r])]
            /\ Exit(r, "complete")
    /\ UNCHANGED <<source, dest, now, max_upload_date_str, end_date_str, df, jobs_data, i,
                   total_inserted, total_errors, watermark, resolvedAt, destAtStart,
                   queryTime, attempts, normVars>>

\* time passes; the clock is read by the resolver (datetime.now()) and by the
\* delta query (CURRENT_TIMESTAMP), so its progress is observed before those steps
Tick ==
    /\ \E r \in Runs : pc[r] \in {"resolve", "fetch"}
    /\ \E later \in ClockValues : TsLT(now, later) /\ now' = later
    /\ UNCHANGED <<source, dest, runVars, normVars>>

Step(r) ==
    \/ ConnectPostgres(r)
    \/ ConnectSupabase(r)
    \/ ResolveWatermark(r)
    \/ ResolveWatermarkError(r)
    \/ FetchDelta(r)
    \/ FetchDeltaError(r)
    \/ PrepareJobs(r)
    \/ BeginInsert(r)
    \/ InsertBatch(r)
    \/ InsertBatchError(r)
    \/ Report(r)

\* one run of the script
Next ==
    \/ Tick
    \/ StartRun(1)
    \/ \E r \in Runs : Step(r)

Spec == Init /\ [][Next]_vars

\* A started script runs on: every statement is a call that returns or raises,
\* so a run that can take a step eventually takes one. The trigger owes nothing.
SpecLive == Init /\ [][Next]_vars /\ \A r \in Runs : WF_vars(Step(r))

\* ------------------------------------------------------------------------
\* Two runs in sequence against the same source
\* ------------------------------------------------------------------------
\* the first process has exited and the trigger starts the script again; of the
\* first run only what it reported (outcome, totals, rate) is kept
Rerun ==
    /\ pc[1] = "done"
    /\ pc[2] = "idle"
    /\ pc' = [pc EXCEPT ![2] = "connect_postgres"]
    /\ destAtStart' = [destAtStart EXCEPT ![2] = dest]
    /\ df' = [df EXCEPT ![1] = <<>>]
    /\ jobs_data' = [jobs_data EXCEPT ![1] = <<>>]
    /\ attempts' = [attempts EXCEPT ![1] = <<>>]
    /\ i' = [i EXCEPT ![1] = 0]
    /\ max_upload_date_str' = [max_upload_date_str EXCEPT ![1] = NoStr]
    /\ end_date_str' = [end_date_str EXCEPT ![1] = NoStr]
    /\ watermark' = [watermark EXCEPT ![1] = "unresolved"]
    /\ resolvedAt' = [resolvedAt EXCEPT ![1] = NoStr]
    /\ queryTime' = [queryTime EXCEPT ![1] = NoStr]
    /\ UNCHANGED <<source, dest, now, outcome, total_inserted, total_errors, success_rate,
                   normVars>>

NextRerun ==
    \/ Tick
    \/ StartRun(1)
    \/ Rerun
    \/ \E r \in Runs : Step(r)

\* the first run starts on an empty destination or on one synced before
InitRerun ==
    /\ source \in SourceTables
    /\ dest \in {<<>>, <<OldRow(T_2024_01_01)>>}
    /\ now \in ClockValues
    /\ InitRuns
    /\ InitNormIdle

SpecRerun == InitRerun /\ [][NextRerun]_vars


\* ------------------------------------------------------------------------
\* Properties of one run (checked under Spec)
\* ------------------------------------------------------------------------
\* text 'YYYY-MM-DD HH:MM:SS' of day d, second s
SecondText(d, s) == [t |-> "sqlstr", day |-> d, sec |-> s]

\* row k of table d carries the largest non-null upload_date of d
IsLatest(d, k) ==
    /\ d[k].upload_date # None
    /\ \A m \in 1..Len(d) : d[m].upload_date # None =>
          \/ d[m].upload_date.day < d[k].upload_date.day
          \/ /\ d[m].upload_date.day = d[k].upload_date.day
             /\ d[m].upload_date.sec < d[k].upload_date.sec
          \/ /\ d[m].upload_date.day = d[k].upload_date.day
             /\ d[m].upload_date.sec = d[k].upload_date.sec
             /\ d[m].upload_date.usec <= d[k].upload_date.usec

\* timestamp x lies strictly after the instant the text low names
StrictlyAfter(x, low) ==
    \/ x.day > low.day
    \/ x.day = low.day /\ x.sec > low.sec
    \/ x.day = low.day /\ x.sec = low.sec /\ x.usec > 0

\* timestamp x lies at or before timestamp y
AtOrBefore(x, y) ==
    \/ x.day < y.day
    \/ x.day = y.day /\ x.sec < y.sec
    \/ x.day = y.day /\ x.sec = y.sec /\ x.usec <= y.usec

\* C1 as stated: when the destination holds a row with a non-null upload_date and
\* the lookup succeeds, the low bound of the delta query is the destination's
\* maximum upload_date advanced by exactly one day.
C1_LowIsMaxPlusOneDay ==
    \A r \in Runs : (pc[r] = "fetch" /\ watermark[r] = "found") =>
        \E k \in 1..Len(dest) :
            /\ IsLatest(dest, k)
            /\ max_upload_date_str[r] =
                  SecondText(dest[k].upload_date.day + 1, dest[k].upload_date.sec)

\* C1 amended: when the destination holds a row with a non-null upload_date and the
\* lookup succeeds, the low bound of the delta query is the destination's maximum
\* upload_date itself, cut to whole seconds and not advanced; the value advanced by
\* exactly one day is end_date_str, which the query does not use.
C1_LowIsMaxItself ==
    \A r \in Runs : (pc[r] = "fetch" /\ watermark[r] = "found") =>
        \E k \in 1..Len(dest) :
            /\ IsLatest(dest, k)
            /\ max_upload_date_str[r] =
                  SecondText(dest[k].upload_date.day, dest[k].upload_date.sec)
            /\ end_date_str[r] =
                  SecondText(dest[k].upload_date.day + 1, dest[k].upload_date.sec)

\* C1 witness: the bounds were resolved from a destination of several rows whose
\* latest upload_date has a fraction of a second
C1_Witness ==
    /\ pc[1] = "fetch"
    /\ watermark[1] = "found"
    /\ Len(dest) > 1
    /\ \E k \in 1..Len(dest) : IsLatest(dest, k) /\ dest[k].upload_date.usec > 0

\* C2: an error while resolving the watermark gives the bounds an empty
\* destination gives, low = '1970-01-01 00:00:00' and high = the clock at that
\* moment, and the run goes on to the delta fetch: it ends only by the fetch or later.
C2_WatermarkFallback ==
    \A r \in Runs : watermark[r] \in {"error", "empty"} =>
        /\ max_upload_date_str[r] = SecondText(0, 0)
        /\ end_date_str[r] = SecondText(resolvedAt[r].day, resolvedAt[r].sec)
        /\ pc[r] \in {"fetch", "prepare", "begin_insert", "insert", "done"}
        /\ pc[r] = "done" => outcome[r] \in {"fetch_error", "no_new_jobs", "complete"}

\* C2 witness: the resolver failed on a destination that holds dated rows, and the
\* run went on to fetch a delta
C2_Witness ==
    /\ watermark[1] = "error"
    /\ \E k \in 1..Len(dest) : dest[k].upload_date # None
    /\ pc[1] = "prepare"
    /\ Len(df[1]) > 0

\* C3: a successful fetch returns exactly the source rows whose upload_date is
\* strictly after the low bound and at or before the query-time clock, each once,
\* ordered by upload_date descending.
C3_DeltaFetch ==
    \A r \in Runs : queryTime[r] # NoStr =>
        /\ \A k \in 1..Len(df[r]) : df[r][k] \in source
        /\ \A x \in source :
              (\E k \in 1..Len(df[r]) : df[r][k] = x) <=>
                  /\ x.upload_date # NaT
                  /\ StrictlyAfter(x.upload_date, max_upload_date_str[r])
                  /\ AtOrBefore(x.upload_date, queryTime[r])
        /\ \A a, b \in 1..Len(df[r]) : a < b =>
              /\ df[r][a] # df[r][b]
              /\ AtOrBefore(df[r][b].upload_date, df[r][a].upload_date)

\* C3 witness: the fetch returned rows and left out a row dated exactly at the low
\* bound and a row dated in the future
C3_Witness ==
    /\ queryTime[1] # NoStr
    /\ Len(df[1]) > 0
    /\ \E x \in source :
          /\ x.upload_date # NaT
          /\ x.upload_date.day = max_upload_date_str[1].day
          /\ x.upload_date.sec = max_upload_date_str[1].sec
          /\ x.upload_date.usec = 0
    /\ \E y \in source : y.upload_date # NaT /\ ~AtOrBefore(y.upload_date, queryTime[1])

\* the worked scenario: the destination's only row is dated 2024-01-01T00:00:00, the
\* source holds three rows dated 2024-01-02, 2024-01-03 and 2023-12-31, all in the
\* past, and run r resolved its bounds and fetched
C4_Scenario(r) ==
    /\ Len(destAtStart[r]) = 1
    /\ destAtStart[r][1].upload_date = [t |-> "isostr", day |-> 19723, sec |-> 0, usec |-> 0]
    /\ Cardinality(source) = 3
    /\ {x.upload_date : x \in source} =
          {Timestamp(19724, 0, 0), Timestamp(19725, 0, 0), Timestamp(19722, 0, 0)}
    /\ watermark[r] = "found"
    /\ queryTime[r] # NoStr
    /\ \A x \in source : AtOrBefore(x.upload_date, queryTime[r])

\* the delta is the 2024-01-03 row and then the 2024-01-02 row
C4_Delta(r) ==
    /\ Len(df[r]) = 2
    /\ df[r][1].upload_date = Timestamp(19725, 0, 0)
    /\ df[r][2].upload_date = Timestamp(19724, 0, 0)

\* C4 as stated: in the worked scenario the delta is the 2024-01-03 row, then the
\* 2024-01-02 row, and the low bound in effect is 2024-01-02.
C4_ScenarioLowJan2 ==
    \A r \in Runs : C4_Scenario(r) =>
        C4_Delta(r) /\ max_upload_date_str[r] = SecondText(19724, 0)

\* C4 amended: in the worked scenario the delta is the 2024-01-03 row, then the
\* 2024-01-02 row, and the low bound in effect is 2024-01-01 00:00:00, the
\* destination's maximum itself (2024-01-02 is only the printed end of the range).
C4_ScenarioLowJan1 ==
    \A r \in Runs : C4_Scenario(r) =>
        /\ C4_Delta(r)
        /\ max_upload_date_str[r] = SecondText(19723, 0)
        /\ end_date_str[r] = SecondText(19724, 0)

\* C4 witness: the scenario happened and its delta is about to be prepared
C4_Witness == C4_Scenario(1) /\ pc[1] = "prepare"

\* C5: a run whose source query raised has ended, with no row fetched or
\* normalized, no insert attempted and the destination as it was at its start.
C5_FetchErrorFatal ==
    \A r \in Runs : outcome[r] = "fetch_error" =>
        /\ pc[r] = "done"
        /\ df[r] = <<>>
        /\ jobs_data[r] = <<>>
        /\ attempts[r] = <<>>
        /\ dest = destAtStart[r]

\* C5 witness: the query raised while the source held rows the query would return
C5_Witness ==
    /\ outcome[1] = "fetch_error"
    /\ \E x \in source :
          /\ x.upload_date # NaT
          /\ StrictlyAfter(x.upload_date, max_upload_date_str[1])
          /\ AtOrBefore(x.upload_date, now)

\* number of batches of n records
NumBatches(n) == (n + batch_size - 1) \div batch_size

RECURSIVE ConfirmedSum(_)
\* rows confirmed by the insert calls of a that returned
ConfirmedSum(a) ==
    IF a = <<>> THEN 0
    ELSE (IF Head(a).result = "returned" THEN Head(a).confirmed ELSE 0) + ConfirmedSum(Tail(a))

\* C6: whatever batches raise, every batch is attempted exactly once and in order
\* (the k-th insert call is for the k-th batch, and a run that reached the loop
\* ends only after all of them), and the rows confirmed for the batches that
\* returned make up the inserted total.
C6_FailureIsolation ==
    \A r \in Runs :
        /\ \A k \in 1..Len(attempts[r]) : attempts[r][k].start = (k - 1) * batch_size
        /\ pc[r] = "insert" => i[r] = Len(attempts[r]) * batch_size
        /\ pc[r] = "insert" => total_inserted[r] = ConfirmedSum(attempts[r])
        /\ (pc[r] = "done" /\ jobs_data[r] # <<>>) =>
              /\ outcome[r] = "complete"
              /\ Len(attempts[r]) = NumBatches(Len(jobs_data[r]))
              /\ total_inserted[r] = ConfirmedSum(attempts[r])

\* C6 witness: a run ended after a batch raised and a later batch was confirmed
C6_Witness ==
    /\ pc[1] = "done"
    /\ \E k \in 1..Len(attempts[1]) : \E m \in 1..Len(attempts[1]) :
          /\ k < m
          /\ attempts[1][k].result = "raised"
          /\ attempts[1][m].result = "returned"
          /\ attempts[1][m].confirmed > 0
          /\ total_inserted[1] > 0

RECURSIVE ConcatBatches(_)
\* the batches of the insert calls of a, concatenated in call order
ConcatBatches(a) ==
    IF a = <<>> THEN <<>> ELSE Head(a).batch \o ConcatBatches(Tail(a))

\* C7: a run that completed with N >= 1 records made ceil(N/B) insert calls; every
\* batch but the last has B records, the last has N mod B (B when that is 0), none
\* is empty, and the batches concatenated in call order are the prepared sequence.
C7_BatchPartition ==
    \A r \in Runs : (pc[r] = "done" /\ outcome[r] = "complete") =>
        LET N == Len(jobs_data[r])
            n == Len(attempts[r])
        IN  /\ N >= 1
            /\ n * batch_size >= N
            /\ (n - 1) * batch_size < N
            /\ \A k \in 1..n : Len(attempts[r][k].batch) >= 1
            /\ \A k \in 1..(n - 1) : Len(attempts[r][k].batch) = batch_size
            /\ Len(attempts[r][n].batch) =
                  (IF N % batch_size = 0 THEN batch_size ELSE N % batch_size)
            /\ ConcatBatches(attempts[r]) = jobs_data[r]

\* C7 witness: a run completed with several batches, the last one smaller
C7_Witness ==
    /\ pc[1] = "done"
    /\ outcome[1] = "complete"
    /\ Len(attempts[1]) > 1
    /\ Len(attempts[1][Len(attempts[1])].batch) < batch_size


\* ------------------------------------------------------------------------
\* Two runs at the same time against the same source and destination
\* ------------------------------------------------------------------------
\* the trigger starts either run whenever it likes: nothing in the script (no
\* lock, no lease) makes a run wait for another
NextOverlap ==
    \/ \E r \in Runs : StartRun(r)
    \/ \E r \in Runs : Step(r)

\* most rows the source holds while two runs overlap
MaxOverlapJobs == 2

\* both runs start on an empty destination, and the clock reads the same for both
InitOverlap ==
    /\ source \in {s \in SourceTables : Cardinality(s) <= MaxOverlapJobs}
    /\ dest = <<>>
    /\ now = T_2024_01_04
    /\ InitRuns
    /\ InitNormIdle

SpecOverlap == InitOverlap /\ [][NextOverlap]_vars

\* ------------------------------------------------------------------------
\* Properties of a run and a re-run (checked under SpecRerun)
\* ------------------------------------------------------------------------
\* the destination table d holds a row of source job x
InDest(d, x) == \E k \in 1..Len(d) : d[k].job_id = [t |-> "int", n |-> x.job_id.n]

\* C8: when the first run completed with every batch confirmed in full and the
\* destination holds every dated source row, a second run whose watermark lookup
\* succeeds fetches an empty delta, confirms no row and leaves the destination
\* unchanged, fractional upload dates included.
C8_IdempotentRerun ==
    (/\ outcome[1] = "complete"
     /\ success_rate[1] = 10000
     /\ \A x \in source : x.upload_date # NaT => InDest(destAtStart[2], x)
     /\ watermark[2] = "found"
     /\ queryTime[2] # NoStr)
    => /\ df[2] = <<>>
       /\ total_inserted[2] = 0
       /\ dest = destAtStart[2]

\* C9: after a first run on an empty destination that wrote some batches and not
\* others, the delta of the next run holds every source row dated at or before the
\* query-time clock that the destination does not hold yet.
C9_RerunFetchesUnwritten ==
    (/\ destAtStart[1] = <<>>
     /\ outcome[1] = "complete"
     /\ total_inserted[1] > 0
     /\ total_errors[1] > 0
     /\ queryTime[2] # NoStr)
    => \A x \in source :
          (/\ x.upload_date # NaT
           /\ AtOrBefore(x.upload_date, queryTime[2])
           /\ ~InDest(destAtStart[2], x))
          => \E k \in 1..Len(df[2]) : df[2][k] = x


\* ------------------------------------------------------------------------
\* The Record Normalizer on its own: one source row through job_data and the
\* NaN pass
\* ------------------------------------------------------------------------
\* rows of the fetched DataFrame: every column either holds a value or the
\* missing value of its dtype
SourceRows ==
    [job_id : {NaN, PyFloat(7)},
     job_role_id : {NaN, PyFloat(0)},
     job_role_name : {None, PyStr("role")},
     source : {None, PyStr("board")},
     title : {None, PyStr("")},
     company : {None, PyStr("company")},
     location : {None, PyStr("location")},
     url : {None, PyStr("url")},
     description : {None, PyStr("description")},
     raw_text : {None, PyStr("raw")},
     date_posted : {NaT, T_2023_12_31},
     hours_back_posted : {NaN, PyFloat(0), PyFloat(5)},
     years_exp_required : {None, NaN, PyStr("3+"), PyFloat(0)},
     upload_date : {NaT, T_2024_01_02_half},
     ingested_at : {NaT, T_2024_01_03}]

InitNormalizer ==
    /\ source = {}
    /\ dest = <<>>
    /\ now = T_2024_01_04
    /\ InitRuns
    /\ row \in SourceRows
    /\ record = NoStr
    /\ cleaned = NoStr
    /\ stage = "fetched"

\* lines 137-156: job_data for the row
Normalize ==
    /\ stage = "fetched"
    /\ record' = job_data(row)
    /\ stage' = "prepared"
    /\ UNCHANGED <<source, dest, now, runVars, row, cleaned>>

\* lines 175-178: the NaN pass over the record
Clean ==
    /\ stage = "prepared"
    /\ cleaned' = ReplaceNaN(record)
    /\ stage' = "cleaned"
    /\ UNCHANGED <<source, dest, now, runVars, row, record>>

NextNormalizer == Normalize \/ Clean

SpecNormalizer == InitNormalizer /\ [][NextNormalizer]_vars

\* the column value v is missing
Absent(v) == v = None \/ v = NaN \/ v = NaT

\* an identifier or counter: the integer when present, else the default
IntegerOr(v, out, default) ==
    IF Absent(v) THEN out = default ELSE out = [t |-> "int", n |-> v.n]

\* a text column: the source value when present, else the default
ValueOr(v, out, default) ==
    IF Absent(v) THEN out = default ELSE out = v

\* a timestamp column: its text when present, else absent
TimestampTextOr(v, out) ==
    IF Absent(v) THEN out = None
    ELSE out = [t |-> "isostr", day |-> v.day, sec |-> v.sec, usec |-> v.usec]

\* the per-field policy, for source row x and target record y
FieldPolicy(x, y) ==
    /\ IntegerOr(x.job_id, y.job_id, None)
    /\ IntegerOr(x.job_role_id, y.job_role_id, None)
    /\ ValueOr(x.job_role_name, y.job_role_name, None)
    /\ ValueOr(x.source, y.source, [t |-> "str", s |-> ""])
    /\ ValueOr(x.title, y.title, [t |-> "str", s |-> ""])
    /\ ValueOr(x.company, y.company, [t |-> "str", s |-> ""])
    /\ ValueOr(x.location, y.location, [t |-> "str", s |-> ""])
    /\ ValueOr(x.url, y.url, [t |-> "str", s |-> ""])
    /\ ValueOr(x.description, y.description, [t |-> "str", s |-> ""])
    /\ ValueOr(x.raw_text, y.raw_text, [t |-> "str", s |-> ""])
    /\ TimestampTextOr(x.date_posted, y.date_posted)
    /\ IntegerOr(x.hours_back_posted, y.hours_back_posted, [t |-> "int", n |-> 0])
    /\ ValueOr(x.years_exp_required, y.years_exp_required, None)
    /\ TimestampTextOr(x.upload_date, y.upload_date)
    /\ TimestampTextOr(x.ingested_at, y.ingested_at)
    /\ y.country = [t |-> "str", s |-> "United States of America"]
    /\ DOMAIN y = DOMAIN x \cup {"country"}

\* C10: the record built from a row follows the per-field absent-value policy, and
\* the record handed on after the NaN pass is that same record.
C10_FieldPolicy ==
    /\ stage \in {"prepared", "cleaned"} => FieldPolicy(row, record)
    /\ stage = "cleaned" => cleaned = record /\ FieldPolicy(row, cleaned)

\* C10 witness: a row with no role, no years of experience, no hours and no title,
\* but with a job id and an upload date, went through both steps
C10_Witness ==
    /\ stage = "cleaned"
    /\ row.job_role_id = NaN
    /\ row.job_role_name = None
    /\ row.years_exp_required = None
    /\ row.hours_back_posted = NaN
    /\ row.title = None
    /\ row.job_id # NaN
    /\ row.upload_date # NaT
    /\ cleaned.hours_back_posted = [t |-> "int", n |-> 0]
    /\ cleaned.title = [t |-> "str", s |-> ""]


\* ------------------------------------------------------------------------
\* Properties of the steps of one run (checked under Spec)
\* ------------------------------------------------------------------------
\* C11: the normalizer yields exactly one record per fetched row, in the order of
\* the rows: once the records are prepared the sequence has the length of the
\* delta, and its k-th record is the one the field policy gives for the k-th row,
\* whatever fields of that row are absent.
C11_OneRecordPerRow ==
    \A r \in Runs :
        (pc[r] \in {"begin_insert", "insert"} \/ (pc[r] = "done" /\ outcome[r] = "complete")) =>
            /\ Len(jobs_data[r]) = Len(df[r])
            /\ \A k \in 1..Len(df[r]) : FieldPolicy(df[r][k], jobs_data[r][k])

\* C11 witness: three rows were fetched, among them one whose role join missed
\* and one with most of its columns absent, and their records are being written
C11_Witness ==
    /\ pc[1] = "insert"
    /\ Len(df[1]) = 3
    /\ \E k \in 1..3 : df[1][k].job_role_id = NaN /\ jobs_data[1][k].job_role_id = None
    /\ \E k \in 1..3 : df[1][k].date_posted = NaT /\ df[1][k].title # None

\* C12: a fetch that succeeds with no row ends the run at once with the outcome
\* "no new jobs": nothing is normalized, no insert call is made, no success rate
\* is computed and the destination is as it was when the run started.
C12_ZeroRowDelta ==
    \A r \in Runs :
        (queryTime[r] # NoStr /\ df[r] = <<>>) =>
            /\ pc[r] = "done"
            /\ outcome[r] = "no_new_jobs"
            /\ jobs_data[r] = <<>>
            /\ attempts[r] = <<>>
            /\ success_rate[r] = -1
            /\ dest = destAtStart[r]

\* C12 witness: the source holds rows, none of them after the low bound, and the
\* run ended with nothing to sync
C12_Witness ==
    /\ outcome[1] = "no_new_jobs"
    /\ source # {}
    /\ watermark[1] = "found"
    /\ df[1] = <<>>

\* C13: a run that ended on a configuration error made no watermark query, no
\* delta fetch and no insert call, and left the destination as it found it.
C13_ConfigErrorBeforeWork ==
    \A r \in Runs :
        outcome[r] = "config_error" =>
            /\ pc[r] = "done"
            /\ watermark[r] = "unresolved"
            /\ max_upload_date_str[r] = NoStr
            /\ resolvedAt[r] = NoStr
            /\ queryTime[r] = NoStr
            /\ df[r] = <<>>
            /\ jobs_data[r] = <<>>
            /\ attempts[r] = <<>>
            /\ dest = destAtStart[r]

\* C13 witness: a run ended on a configuration error although the source holds
\* rows the destination lacks
C13_Witness ==
    /\ pc[1] = "done"
    /\ outcome[1] = "config_error"
    /\ source # {}
    /\ dest = <<>>

\* the last insert call of run r in the next state
LastAttempt(r) == attempts'[r][Len(attempts'[r])]

\* C14: only an insert call that returned changes the destination, and it appends
\* the rows it confirmed; no step changes the source; once a run has resolved its
\* low bound no later step changes it, and once it has fetched its delta no later
\* step changes the delta, whatever the batch writes do to the destination.
C14_OnlyBatchWriterMutates ==
    [][/\ source' = source
       /\ dest' # dest =>
             \E r \in Runs :
                /\ pc[r] = "insert"
                /\ Len(attempts'[r]) = Len(attempts[r]) + 1
                /\ LastAttempt(r).result = "returned"
                /\ dest' = dest \o SubSeq(LastAttempt(r).batch, 1, LastAttempt(r).confirmed)
       /\ \A r \in Runs :
             /\ watermark[r] # "unresolved" =>
                   /\ max_upload_date_str'[r] = max_upload_date_str[r]
                   /\ watermark'[r] = watermark[r]
             /\ queryTime[r] # NoStr => df'[r] = df[r]
      ]_vars

\* C14 witness: a run is writing batches, the destination's latest upload date is
\* now later than the one the run resolved, and the run still holds the low bound
\* it resolved at its start and the three rows it fetched with it
C14_Witness ==
    /\ pc[1] = "insert"
    /\ watermark[1] = "found"
    /\ dest # destAtStart[1]
    /\ max_upload_date_str[1] =
          WatermarkBounds(SelectMaxUploadDate(destAtStart[1]), now).max_upload_date_str
    /\ max_upload_date_str[1] #
          WatermarkBounds(SelectMaxUploadDate(dest), now).max_upload_date_str
    /\ Len(df[1]) = 3

RECURSIVE RaisedSum(_)
\* rows of the insert calls of a that raised
RaisedSum(a) ==
    IF a = <<>> THEN 0
    ELSE (IF Head(a).result = "raised" THEN Len(Head(a).batch) ELSE 0) + RaisedSum(Tail(a))

\* every insert call of a that returned confirmed its whole batch
FullyConfirmed(a) ==
    \A k \in 1..Len(a) : a[k].result = "returned" => a[k].confirmed = Len(a[k].batch)

\* C15: the inserted total is the sum of the confirmed counts of the batches that
\* returned, the failed total is the sum of the sizes of the batches that raised,
\* the two together never exceed the rows attempted so far, and at the end of the
\* loop they add up to the prepared rows exactly when every batch that returned
\* was confirmed in full.
C15_ReportAccounting ==
    \A r \in Runs :
        (pc[r] = "insert" \/ (pc[r] = "done" /\ outcome[r] = "complete")) =>
            /\ total_inserted[r] = ConfirmedSum(attempts[r])
            /\ total_errors[r] = RaisedSum(attempts[r])
            /\ total_inserted[r] + total_errors[r] <= Len(ConcatBatches(attempts[r]))
            /\ Len(ConcatBatches(attempts[r])) <= Len(jobs_data[r])
            /\ i[r] >= Len(jobs_data[r]) =>
                  /\ Len(ConcatBatches(attempts[r])) = Len(jobs_data[r])
                  /\ (total_inserted[r] + total_errors[r] = Len(jobs_data[r]))
                        <=> FullyConfirmed(attempts[r])

\* C15 witness: a run ended after one batch raised and another returned with
\* fewer rows confirmed than sent, so the totals fall short of the prepared rows
C15_Witness ==
    /\ pc[1] = "done"
    /\ outcome[1] = "complete"
    /\ \E k \in 1..Len(attempts[1]) : attempts[1][k].result = "raised"
    /\ \E k \in 1..Len(attempts[1]) :
          /\ attempts[1][k].result = "returned"
          /\ attempts[1][k].confirmed < Len(attempts[1][k].batch)
    /\ total_errors[1] > 0
    /\ total_inserted[1] + total_errors[1] < Len(jobs_data[1])

\* C16: the steps after the fetch run only on a non-empty delta and the insert
\* block only on a non-empty record list, so a success rate is computed only over
\* at least one attempted row, is the inserted total over the prepared rows, and
\* no run ends in the handler of the insert block or with nothing prepared.
C16_NoZeroDivision ==
    \A r \in Runs :
        /\ pc[r] \in {"prepare", "begin_insert", "insert"} => Len(df[r]) >= 1
        /\ pc[r] = "insert" => Len(jobs_data[r]) >= 1
        /\ success_rate[r] # -1 =>
              /\ Len(jobs_data[r]) >= 1
              /\ outcome[r] = "complete"
              /\ success_rate[r] = (total_inserted[r] * 10000) \div Len(jobs_data[r])
        /\ outcome[r] \notin {"insert_error", "nothing_prepared"}

\* C16 witness: a run ended with a rate of zero: every batch of its non-empty
\* record list was attempted and no row was confirmed
C16_Witness ==
    /\ pc[1] = "done"
    /\ outcome[1] = "complete"
    /\ success_rate[1] = 0
    /\ total_inserted[1] = 0
    /\ Len(jobs_data[1]) >= 1
    /\ Len(attempts[1]) = NumBatches(Len(jobs_data[1]))


\* ------------------------------------------------------------------------
\* Properties of two runs at the same time (checked under SpecOverlap)
\* ------------------------------------------------------------------------
\* the rows of a delta, whatever their order
RowSet(d) == {d[k] : k \in 1..Len(d)}

\* how many rows of the destination table d carry the job_id of source row x
Occurrences(d, x) ==
    Cardinality({k \in 1..Len(d) : d[k].job_id = [t |-> "int", n |-> x.job_id.n]})

\* run r ended after every one of its batches returned with all rows confirmed
AllConfirmed(r) ==
    /\ pc[r] = "done"
    /\ outcome[r] = "complete"
    /\ FullyConfirmed(attempts[r])
    /\ RaisedSum(attempts[r]) = 0

\* C17: two runs that resolved the same low bound (as they do when both resolve
\* before either writes) and queried at the same clock reading fetched the same
\* rows; when both then wrote all their batches with every row confirmed, the
\* destination holds the job_id of each of those rows at least twice: no step
\* of either run waits for the other or looks for the key in the destination.
C17_OverlapDuplicates ==
    (/\ queryTime[1] # NoStr
     /\ queryTime[2] = queryTime[1]
     /\ max_upload_date_str[1] = max_upload_date_str[2]) =>
        /\ RowSet(df[1]) = RowSet(df[2])
        /\ (AllConfirmed(1) /\ AllConfirmed(2)) =>
              \A k \in 1..Len(df[1]) : Occurrences(dest, df[1][k]) >= 2

\* C17 witness: both runs found the destination empty when they resolved the
\* watermark, so neither had written; both wrote their whole delta, and the
\* destination now holds some job_id twice
C17_Witness ==
    /\ watermark[1] = "empty"
    /\ watermark[2] = "empty"
    /\ AllConfirmed(1)
    /\ AllConfirmed(2)
    /\ Len(df[1]) = 2
    /\ \E k, m \in 1..Len(dest) : k < m /\ dest[k].job_id = dest[m].job_id


\* ------------------------------------------------------------------------
\* Outcomes and order of the steps of a run (checked under SpecLive)
\* ------------------------------------------------------------------------
\* position of a step in the script
StepRank(p) ==
    CASE p = "idle" -> 0
      [] p = "connect_postgres" -> 1
      [] p = "connect_supabase" -> 2
      [] p = "resolve" -> 3
      [] p = "fetch" -> 4
      [] p = "prepare" -> 5
      [] p = "begin_insert" -> 6
      [] p = "insert" -> 7
      [] p = "done" -> 8

\* how run r ended, told from what it did
OutcomeOf(r) ==
    /\ outcome[r] \in {"config_error", "fetch_error", "no_new_jobs", "complete"}
    /\ outcome[r] = "config_error" <=> watermark[r] = "unresolved"
    /\ outcome[r] = "fetch_error" <=> (watermark[r] # "unresolved" /\ queryTime[r] = NoStr)
    /\ outcome[r] = "no_new_jobs" <=> (queryTime[r] # NoStr /\ df[r] = <<>>)
    /\ outcome[r] = "complete" <=>
          /\ queryTime[r] # NoStr
          /\ Len(df[r]) >= 1
          /\ Len(attempts[r]) = NumBatches(Len(df[r]))
          /\ success_rate[r] # -1

\* the delta run r would have fetched had its watermark lookup succeeded is empty
ProperDeltaEmpty(r) ==
    LET proper == WatermarkBounds(SelectMaxUploadDate(destAtStart[r]), resolvedAt[r])
    IN  \A rows \in sql_query(source, proper.max_upload_date_str, queryTime[r]) : rows = <<>>

\* C18 as stated: a watermark lookup error leaves the run at the outcome it would
\* have reached without the error: it ends with nothing to sync exactly when the
\* delta above the destination's real maximum is empty.
C18_WatermarkErrorKeepsOutcome ==
    \A r \in Runs :
        (pc[r] = "done" /\ watermark[r] = "error" /\ queryTime[r] # NoStr) =>
            (outcome[r] = "no_new_jobs" <=> ProperDeltaEmpty(r))

\* C18: every started run ends; it ends in exactly one of four outcomes, decided
\* by the configuration, by whether the fetch raised and by whether the delta it
\* fetched is empty, and by nothing else: neither a watermark lookup error nor
\* any number of batch errors ends a run early or otherwise; a step is followed
\* only by the next step of the script or by the end of the run, and an insert
\* call is made only after the whole delta was fetched and normalized.
C18_TerminatesInOrder ==
    /\ \A r \in Runs : (pc[r] # "idle") ~> (pc[r] = "done")
    /\ [](\A r \in Runs :
             /\ pc[r] = "done" => OutcomeOf(r)
             /\ pc[r] # "done" => outcome[r] = "none"
             /\ attempts[r] # <<>> =>
                   /\ pc[r] \in {"insert", "done"}
                   /\ queryTime[r] # NoStr
                   /\ Len(jobs_data[r]) = Len(df[r]))
    /\ [][\A r \in Runs :
             pc'[r] # pc[r] =>
                \/ StepRank(pc'[r]) = StepRank(pc[r]) + 1
                \/ pc'[r] = "done"]_vars

\* C18 witness: the watermark lookup raised, the run fetched with the fallback
\* bound, a batch raised and a later batch returned, and the run ended after all
\* batches on a destination that already held everything the source has
C18_Witness ==
    /\ pc[1] = "done"
    /\ outcome[1] = "complete"
    /\ watermark[1] = "error"
    /\ Len(attempts[1]) = 2
    /\ attempts[1][1].result = "raised"
    /\ attempts[1][2].result = "returned"
    /\ ProperDeltaEmpty(1)

====
